---- MODULE Spec2Model ----
(***************************************************************************)
(* Calendar synchronisation of parallel-task-web: the routes               *)
(*   POST   /api/calendar/sync   (src/src/app/api/calendar/sync/route.ts)  *)
(*   DELETE /api/calendar/sync                                             *)
(*   GET    /api/auth/callback/google, DELETE /api/calendar/status         *)
(* and the helper getValidTokens, over one user, one task, the user's      *)
(* google_oauth_tokens row, the task's google_calendar_event_id, the       *)
(* calendar_sync_log table and the user's primary Google calendar.         *)
(*                                                                         *)
(* A request is a process; it takes one step per `await` of its handler:   *)
(* the awaited operation together with the synchronous code that follows   *)
(* it up to the next await (or the response).  Requests interleave at      *)
(* those points only, as they do in the Node event loop.                   *)
(*                                                                         *)
(* Time is a counter of ticks.  An access token is identified by the       *)
(* instant at which it expires (the expiry_date the code derives from the  *)
(* response that carried it), so "the returned token is still valid" can   *)
(* be read off the token itself and compared with what the code checks,    *)
(* the row's expires_at column.                                            *)
(***************************************************************************)
EXTENDS Integers, Sequences, FiniteSets, TLC

\* ------------------------------------------------------------- bounds ---
MaxTime == 1            \* the clock stops ticking here
MaxRequests == 2        \* requests started in one behaviour
MaxConnects == 1        \* OAuth callbacks in one behaviour
MaxEvents == 2          \* events the calendar service creates
MaxStoreFaults == 1     \* store operations that fail in one behaviour
MaxLifetime == 1        \* longest lifetime (ticks) the service states itself
MaxNotifications == 2   \* notifications the webhook receives in one behaviour
MaxCallbacks == 3       \* OAuth callbacks received in one behaviour
MaxSubtasks == 3        \* subtask creations received in one behaviour
MaxGateRequests == 2    \* requests received at the routes in one behaviour

\* 3600000 ms, the lifetime the code assumes when a response states none
\* (expiry_date || Date.now() + 3600000), in ticks of half an hour.
HourTicks == 2

Procs == {1, 2}
NoEvent == 0            \* google_calendar_event_id IS NULL

\* ----------------------------------------------------------- records ---
\* A google_oauth_tokens row; present = FALSE is "no row" (and the null
\* getValidTokens returns).
NoRow ==
    [present |-> FALSE, access_token |-> 0, refresh_token |-> 0, expires_at |-> 0]

\* A row of tasks as a handler holds it: its edited fields (title,
\* description, status, priority, due date: one value stands for them all) and
\* its google_calendar_event_id.  present = FALSE is "no row".
NoTask == [present |-> FALSE, fields |-> 0, eventId |-> NoEvent]

\* The locals of one request handler.  An idle process holds IdleProc.
\*   pc      the await the handler is suspended at
\*   kind    "sync" (POST), "pdel" (POST, action 'delete'), "unsync" (DELETE)
\*   tokens  what getValidTokens returned (or the row it read, while refreshing)
\*   how     which return of getValidTokens produced tokens
\*   newTok  newTokens.expiry_date of the refresh response
\*   refreshedAt  the instant that response arrived
\*   eventId the handler's eventId / task.google_calendar_event_id
\*   task    the row the update of PATCH /api/tasks/[taskId] returned
\* and, recorded for the properties only:
\*   pre     the task's event id when the request arrived
\*   gonePre whether that event had been deleted out-of-band by then
\*   conc    another request was in flight during this one
\*   call, callRes   the calendar call the request made and its outcome
\*   wrote   outcome of the request's write of google_calendar_event_id
\*   logged  the action of the calendar_sync_log row the request inserted
IdleProc ==
    [pc |-> "idle", kind |-> "none", tokens |-> NoRow, how |-> "none",
     task |-> NoTask,
     newTok |-> 0, refreshedAt |-> 0, eventId |-> NoEvent, pre |-> NoEvent, gonePre |-> FALSE,
     conc |-> FALSE, call |-> "none", callRes |-> "none", wrote |-> "none",
     logged |-> "none"]

VARIABLES
    now,            \* new Date() / Date.now(), in ticks
    cred,           \* the user's google_oauth_tokens row
    taskEventId,    \* tasks.google_calendar_event_id of the task
    calendar,       \* ids of the events that exist in the primary calendar
    issued,         \* events the service has created so far (ids 1..issued)
    gone,           \* events deleted in Google Calendar itself, out-of-band
    syncLog,        \* calendar_sync_log, in insertion order
    lastExchange,   \* refresh_token stored by the last successful callback
    proc,           \* the request handlers
    last,           \* the request that finished last (or an out-of-band deletion)
    nReq, nConn, faults,
    taskFields,     \* the task's edited fields (title, status, ...)
    watches,        \* calendar_watches: rows <<channel_id, user_id>>
    syncQueue,      \* calendar_sync_queue, in insertion order
    hook,           \* the webhook handler and the notification it last handled
    nHook,          \* notifications received
    extEvents,      \* the events events.list returns: [id, marked]
    taskRows,       \* the rows of tasks, in the order a select returns them
    listed,         \* the response of GET /api/calendar/events
    creds,          \* google_oauth_tokens as a table, and the routes that write it
    mapper,         \* a task row, its event in the calendar, the last operation
    subs,           \* the subtasks of one task and the handlers that create them
    gate            \* a request at the door of a route, and what it has done

\* The state of the webhook route.
hookVars == <<watches, syncQueue, hook, nHook>>

\* The state of the events route.
listVars == <<extEvents, taskRows, listed>>

tokenRows == creds.rows     \* google_oauth_tokens, the rows of all users
cb == creds.cb              \* the OAuth callback handlers
credLast == creds.last      \* the operation on google_oauth_tokens that ran last
\* creds.ids counts the row ids (uuid_generate_v4) handed out so far and
\* creds.n the OAuth callbacks received.

\* The state outside the calendar sync routes: the routes and functions of
\* the rest of the module work on it, the sync routes leave it alone.
aux == <<taskFields, hookVars, listVars, creds, mapper, subs, gate>>

\* The state the task routes and functions leave alone.
outsideTask == <<hookVars, listVars, creds, mapper, subs, gate>>

vars ==
    <<now, cred, taskEventId, calendar, issued, gone, syncLog, lastExchange,
      proc, last, nReq, nConn, faults, aux>>

\* What a finished request leaves in last: its locals, its response and the
\* task's event id and the calendar as it left them.
Entry(p, pr, r) ==
    [p |-> p, kind |-> pr.kind, resp |-> r, task |-> pr.task, how |-> pr.how, pre |-> pr.pre,
     gonePre |-> pr.gonePre, conc |-> pr.conc, call |-> pr.call,
     callRes |-> pr.callRes, wrote |-> pr.wrote, logged |-> pr.logged,
     post |-> taskEventId', ev |-> calendar']

OobEntry ==
    [p |-> 0, kind |-> "oob", resp |-> "none", task |-> NoTask, how |-> "none", pre |-> NoEvent,
     gonePre |-> FALSE, conc |-> FALSE, call |-> "none", callRes |-> "none",
     wrote |-> "none", logged |-> "none", post |-> taskEventId', ev |-> calendar']

NoEntry ==
    [p |-> 0, kind |-> "none", resp |-> "none", task |-> NoTask, how |-> "none", pre |-> NoEvent,
     gonePre |-> FALSE, conc |-> FALSE, call |-> "none", callRes |-> "none",
     wrote |-> "none", logged |-> "none", post |-> NoEvent, ev |-> {}]

LogRow(task, ev, action, status) ==
    [task_id |-> task, event_id |-> ev, action |-> action, status |-> status]

\* A store operation (select / update / insert / upsert) either takes effect
\* or fails; supabase-js reports the failure in `error` and does not throw.
StoreOp(ok) ==
    /\ ok \/ faults < MaxStoreFaults
    /\ faults' = IF ok THEN faults ELSE faults + 1

\* ---------------------------------------------------------------- Init ---
\* The webhook handler before its first notification.
IdleHook ==
    [pc |-> "idle", state |-> "none", channel |-> 0, user |-> 0, resp |-> "none",
     lookup |-> "none", insert |-> "none", enqueued |-> 0, fetched |-> FALSE]

HookStart ==
    /\ syncQueue = <<>>
    /\ hook = IdleHook
    /\ nHook = 0

\* GET /api/calendar/events has not answered.
NotListed == [resp |-> "none", sel |-> "none", events |-> {}]

CbProcs == {1, 2}

\* An OAuth callback handler: the user it connects (the state parameter)
\* and the refresh token its code exchange returned.
IdleCb == [pc |-> "idle", user |-> 0, rt |-> 0]

\* What the token endpoint sent back for a code: which of the two tokens the
\* response carries.
TokenResponses == [access_token : BOOLEAN, refresh_token : BOOLEAN]

NoTokens == [access_token |-> FALSE, refresh_token |-> FALSE]

\* A check of the access token alone.
GetTokensFromCodeAccessOnly(tokens) == tokens.access_token

\* if (!tokens.access_token || !tokens.refresh_token) throw new Error(...):
\* TRUE when getTokensFromCode returns the tokens, FALSE when it throws.
GetTokensFromCode(tokens) == tokens.access_token /\ tokens.refresh_token

NoCredOp ==
    [op |-> "none", user |-> 0, ok |-> FALSE, rt |-> 0, had |-> FALSE,
     tokens |-> NoTokens]

CredStart ==
    creds = [rows |-> {}, ids |-> 0, cb |-> [c \in CbProcs |-> IdleCb],
             last |-> NoCredOp, n |-> 0]

\* A date string: its date portion (a day number; 0 in the empty string)
\* and the text that follows it, empty or a 'T' and a time.
NoDate == [date |-> 0, rest |-> ""]

\* due_time and duration when null / undefined.
NoTime == -1
NoDuration == -1

\* A task with no due date.
BlankTask ==
    [title |-> 1, status |-> "todo", priority |-> 0, due_date |-> NoDate,
     due_time |-> NoTime, duration |-> NoDuration]

\* start / end when undefined.
NoWhen == [kind |-> "undefined", date |-> NoDate, at |-> 0]

\* The task has no event.
NoExtEvent ==
    [exists |-> FALSE, summary |-> 0, description |-> <<>>, start |-> NoWhen,
     end |-> NoWhen, colorId |-> 0, status |-> "none"]

NoMapOp == [op |-> "none", route |-> "none"]

\* The task row the event is made from, the task's event as the calendar
\* service holds it, and the operation on either that ran last.
mapTask == mapper.task
mapEvent == mapper.event
mapLast == mapper.last

MapStart == mapper = [task |-> BlankTask, event |-> NoExtEvent, last |-> NoMapOp]

SubProcs == {1, 2}

IdleSub == [pc |-> "idle", next |-> 0, blind |-> FALSE]

\* The rows of subtasks of the task, [id, position, blind]; the handlers of
\* POST /api/subtasks; subs.n counts the creations received.
subtasks == subs.rows
sub == subs.h

SubtaskStart == subs = [rows |-> {}, h |-> [p \in SubProcs |-> IdleSub], n |-> 0]

\* No request at a route yet; n counts the requests received.
IdleGate ==
    [pc |-> "idle", route |-> "none", identity |-> "none", resp |-> "none",
     ext |-> FALSE, wrote |-> {}, n |-> 0]

GateStart == gate = IdleGate

AuxInit ==
    /\ taskFields = 0
    /\ watches = {}
    /\ HookStart
    /\ extEvents = {}
    /\ taskRows = <<>>
    /\ listed = NotListed
    /\ CredStart
    /\ MapStart
    /\ SubtaskStart
    /\ GateStart

SyncInit ==
    /\ now = 0
    /\ cred = NoRow
    /\ taskEventId = NoEvent
    /\ calendar = {}
    /\ issued = 0
    /\ gone = {}
    /\ syncLog = <<>>
    /\ lastExchange = 0
    /\ proc = [p \in Procs |-> IdleProc]
    /\ last = NoEntry
    /\ nReq = 0
    /\ nConn = 0
    /\ faults = 0

Init == SyncInit /\ AuxInit

\* --------------------------------------------------------- environment ---
Tick ==
    /\ UNCHANGED aux
    /\ now < MaxTime
    /\ now' = now + 1
    /\ UNCHANGED <<cred, taskEventId, calendar, issued, gone, syncLog,
                   lastExchange, proc, last, nReq, nConn, faults>>

\* The user deletes an event in Google Calendar itself.
OutOfBandDelete ==
    /\ UNCHANGED aux
    /\ \E e \in calendar :
         /\ calendar' = calendar \ {e}
         /\ gone' = gone \cup {e}
    /\ UNCHANGED taskEventId
    /\ last' = OobEntry
    /\ UNCHANGED <<now, cred, issued, syncLog, lastExchange, proc, nReq,
                   nConn, faults>>

\* The expiry_date the code derives from a token response received now:
\* life = 0 is a response that states no expiry.
ExpiryDate(life) == IF life = 0 THEN now + HourTicks ELSE now + life

\* GET /api/auth/callback/google: exchange the code, upsert the row on
\* conflict (user_id), log the connection.  A failed exchange throws and a
\* failed upsert returns before the log insert.
OAuthCallback ==
    /\ UNCHANGED aux
    /\ nConn < MaxConnects
    /\ nConn' = nConn + 1
    /\ \E tokens \in TokenResponses :
         IF ~GetTokensFromCode(tokens)
         THEN UNCHANGED <<cred, syncLog, lastExchange, faults>>
         ELSE \E life \in 0..MaxLifetime, ok \in BOOLEAN, okLog \in BOOLEAN :
              /\ ok \/ okLog
              /\ StoreOp(ok /\ okLog)
              /\ IF ok
                 THEN /\ cred' = [present |-> TRUE,
                                  access_token |-> ExpiryDate(life),
                                  refresh_token |-> nConn + 1,
                                  expires_at |-> ExpiryDate(life)]
                      /\ lastExchange' = nConn + 1
                      /\ syncLog' = IF okLog
                                    THEN Append(syncLog, LogRow(0, NoEvent, "sync", "success"))
                                    ELSE syncLog
                 ELSE UNCHANGED <<cred, syncLog, lastExchange>>
    /\ UNCHANGED <<now, taskEventId, calendar, issued, gone, proc, last, nReq>>

\* DELETE /api/calendar/status: delete the user's row.
Disconnect ==
    /\ UNCHANGED aux
    /\ cred.present
    /\ \E ok \in BOOLEAN :
         /\ StoreOp(ok)
         /\ cred' = IF ok THEN NoRow ELSE cred
    /\ UNCHANGED <<now, taskEventId, calendar, issued, gone, syncLog,
                   lastExchange, proc, last, nReq, nConn>>

\* ------------------------------------------------------ request handlers ---
InFlight(p) == proc[p].pc # "idle"

AllIdle == \A p \in Procs : ~InFlight(p)

\* The request has produced its response r.
Finish(p, pr, r) ==
    /\ proc' = [proc EXCEPT ![p] = IdleProc]
    /\ last' = Entry(p, pr, r)

\* A request arrives (authenticated, with a task id).  POST awaits
\* getValidTokens first, DELETE awaits its select of the task first.
\* Handlers are interchangeable, so a request is given to handler 1 when
\* that is free and to handler 2 only while handler 1 is busy.
Arrive(p, k, first) ==
    /\ UNCHANGED aux
    /\ ~InFlight(p)
    /\ p = 1 \/ InFlight(1)
    /\ nReq < MaxRequests
    /\ nReq' = nReq + 1
    /\ proc' = [q \in Procs |->
                  IF q = p
                  THEN [IdleProc EXCEPT !.pc = first, !.kind = k,
                                        !.pre = taskEventId,
                                        !.gonePre = taskEventId \in gone,
                                        !.conc = \E o \in Procs \ {p} : InFlight(o)]
                  ELSE IF InFlight(q) THEN [proc[q] EXCEPT !.conc = TRUE]
                  ELSE proc[q]]
    /\ UNCHANGED <<now, cred, taskEventId, calendar, issued, gone, syncLog,
                   lastExchange, last, nConn, faults>>

\* POST /api/calendar/sync with body {taskId, action}.
PostStart(p) ==
    \E k \in {"sync", "pdel"} : Arrive(p, k, "getTokens")

\* DELETE /api/calendar/sync?taskId=...
DeleteStart(p) == Arrive(p, "unsync", "dTaskRead")

\* ---- getValidTokens (sync/route.ts 22-63) ----

\* A slip in the comparison: a token that expires this instant passes.
ExpiredStrictly(row) == row.expires_at < now

\* A check that sends every token to the refresh.
ExpiredAlways(row) == TRUE

\* if (expiresAt <= now)
Expired(row) == row.expires_at <= now

\* POST without its `if (!tokens)` return: it goes on to the task with null.
AfterTokensUnchecked(p, t, h) ==
    LET pr == [proc[p] EXCEPT !.tokens = t, !.how = h, !.newTok = 0,
                              !.refreshedAt = 0] IN
    IF pr.kind = "patch" /\ ~t.present
    THEN Finish(p, pr, "task")
    ELSE /\ proc' = [proc EXCEPT ![p] =
                       [pr EXCEPT !.pc = IF pr.kind = "patch" THEN "pExtPatch"
                                         ELSE IF pr.kind # "unsync" THEN "taskRead"
                                         ELSE IF t.present THEN "dExtDelete"
                                         ELSE "dClearId"]]
         /\ UNCHANGED last

\* What the caller does with the result of `await getValidTokens(user.id)`:
\* POST returns 401 {needsAuth: true} on null, and goes on to read the task
\* otherwise; DELETE deletes the event only `if (tokens)` and clears the
\* task's event id either way; PATCH /api/tasks/[taskId] patches the event
\* only `if (tokens)` and answers with the task either way.
AfterTokens(p, t, h) ==
    LET pr == [proc[p] EXCEPT !.tokens = t, !.how = h, !.newTok = 0,
                              !.refreshedAt = 0] IN
    IF pr.kind = "patch"
    THEN IF t.present
         THEN /\ proc' = [proc EXCEPT ![p] = [pr EXCEPT !.pc = "pExtPatch"]]
              /\ UNCHANGED last
         ELSE Finish(p, pr, "task")
    ELSE IF pr.kind = "unsync"
    THEN /\ proc' = [proc EXCEPT ![p] =
                       [pr EXCEPT !.pc = IF t.present THEN "dExtDelete" ELSE "dClearId"]]
         /\ UNCHANGED last
    ELSE IF t.present
    THEN /\ proc' = [proc EXCEPT ![p] = [pr EXCEPT !.pc = "taskRead"]]
         /\ UNCHANGED last
    ELSE Finish(p, pr, "needsAuth")

\* The select of the row, and the expiry check that follows it.
GetValidTokens(p) ==
    /\ UNCHANGED aux
    /\ proc[p].pc = "getTokens"
    /\ UNCHANGED <<now, cred, taskEventId, calendar, issued, gone, syncLog,
                   lastExchange, nReq, nConn>>
    /\ \E ok \in BOOLEAN :
         /\ StoreOp(ok)
         /\ IF ~ok \/ ~cred.present
            THEN AfterTokens(p, NoRow, "absent")
            ELSE IF Expired(cred)
            THEN /\ proc' = [proc EXCEPT ![p].pc = "refresh", ![p].tokens = cred]
                 /\ UNCHANGED last
            ELSE AfterTokens(p, cred, "stored")

\* A catch that gives the credential up: the row is deleted.
DropOnRefreshFailure(row) == NoRow

\* catch (error) { return null; }: the row is not touched.
OnRefreshFailure(row) == row

\* await refreshAccessToken(tokens.refresh_token): the service answers with
\* a new access token, or the call throws (network error, revoked grant, a
\* response without access_token).
RefreshAccessToken(p) ==
    /\ UNCHANGED aux
    /\ proc[p].pc = "refresh"
    /\ UNCHANGED <<now, taskEventId, calendar, issued, gone, syncLog,
                   lastExchange, nReq, nConn, faults>>
    /\ \E granted \in BOOLEAN, life \in 0..MaxLifetime :
         IF granted
         THEN /\ proc' = [proc EXCEPT ![p].pc = "storeTokens",
                                      ![p].newTok = ExpiryDate(life),
                                      ![p].refreshedAt = now]
              /\ UNCHANGED <<cred, last>>
         ELSE /\ life = 0
              /\ cred' = OnRefreshFailure(cred)
              /\ AfterTokens(p, NoRow, "refreshFailed")

\* An update that also writes the refresh token of the refresh response,
\* which carries none.
RefreshedRowWithRefreshToken(row, newTok) ==
    [row EXCEPT !.access_token = newTok, !.expires_at = newTok, !.refresh_token = 0]

\* .update({access_token, expires_at, updated_at}).eq('user_id', userId)
RefreshedRow(row, newTok) ==
    [row EXCEPT !.access_token = newTok, !.expires_at = newTok]

\* return {...tokens, access_token: newTokens.access_token}
RefreshedTokens(tokens, newTok) == [tokens EXCEPT !.access_token = newTok]

\* The update of the row (it changes the user's row if there is one), and
\* the return that follows it.
StoreRefreshedTokens(p) ==
    /\ UNCHANGED aux
    /\ proc[p].pc = "storeTokens"
    /\ UNCHANGED <<now, taskEventId, calendar, issued, gone, syncLog,
                   lastExchange, nReq, nConn>>
    /\ \E ok \in BOOLEAN :
         /\ StoreOp(ok)
         /\ cred' = IF ok /\ cred.present
                    THEN RefreshedRow(cred, proc[p].newTok)
                    ELSE cred
         /\ AfterTokens(p, RefreshedTokens(proc[p].tokens, proc[p].newTok), "refreshed")

\* ---- the calendar service, as the googleapis client shows it ----

\* events.patch / events.delete on event e: the client throws on any
\* non-2xx answer, so a missing event (404/410) and a failed call both
\* throw; "notfound" and "fail" tell the two apart for the properties.
ExtOutcomes(e) == {"fail"} \cup (IF e \in calendar THEN {"ok"} ELSE {"notfound"})

\* ---- POST /api/calendar/sync (sync/route.ts 107-211) ----

\* The branch taken on the event id read from the task:
\*   if (action === 'delete' && eventId) ... else if (eventId) ... else ...
Branch(kind, eventId) ==
    IF kind = "pdel" /\ eventId # NoEvent THEN "extDelete"
    ELSE IF eventId # NoEvent THEN "extPatch"
    ELSE "extInsert"

\* The select of the task (404 when it fails), then the branch.
PostReadTask(p) ==
    /\ UNCHANGED aux
    /\ proc[p].pc = "taskRead"
    /\ UNCHANGED <<now, cred, taskEventId, calendar, issued, gone, syncLog,
                   lastExchange, nReq, nConn>>
    /\ \E ok \in BOOLEAN :
         /\ StoreOp(ok)
         /\ IF ok
            THEN /\ proc' = [proc EXCEPT ![p].eventId = taskEventId,
                                         ![p].pc = Branch(proc[p].kind, taskEventId)]
                 /\ UNCHANGED last
            ELSE Finish(p, proc[p], "notFound")

\* await deleteCalendarEvent(calendar, eventId): a throw goes to the outer
\* catch, which answers 500.
PostDeleteEvent(p) ==
    /\ UNCHANGED aux
    /\ proc[p].pc = "extDelete"
    /\ UNCHANGED <<now, cred, taskEventId, issued, gone, syncLog, lastExchange,
                   nReq, nConn, faults>>
    /\ \E r \in ExtOutcomes(proc[p].eventId) :
         LET pr == [proc[p] EXCEPT !.call = "delete", !.callRes = r] IN
         IF r = "ok"
         THEN /\ calendar' = calendar \ {proc[p].eventId}
              /\ proc' = [proc EXCEPT ![p] = [pr EXCEPT !.pc = "clearId"]]
              /\ UNCHANGED last
         ELSE /\ UNCHANGED calendar
              /\ Finish(p, pr, "error")

\* .update({google_calendar_event_id: null, ...}).eq('id', taskId)
PostClearEventId(p) ==
    /\ UNCHANGED aux
    /\ proc[p].pc = "clearId"
    /\ UNCHANGED <<now, cred, calendar, issued, gone, syncLog, lastExchange,
                   last, nReq, nConn>>
    /\ \E ok \in BOOLEAN :
         /\ StoreOp(ok)
         /\ taskEventId' = IF ok THEN NoEvent ELSE taskEventId
         /\ proc' = [proc EXCEPT ![p].pc = "logDelete",
                                 ![p].wrote = IF ok THEN "ok" ELSE "failed"]

\* The insert of the log row of a finished branch, and the 200 response.
LogAndRespond(p, action, r) ==
    /\ UNCHANGED aux
    /\ UNCHANGED <<now, cred, taskEventId, calendar, issued, gone,
                   lastExchange, nReq, nConn>>
    /\ \E ok \in BOOLEAN :
         /\ StoreOp(ok)
         /\ syncLog' = IF ok
                       THEN Append(syncLog, LogRow(1, proc[p].eventId, action, "success"))
                       ELSE syncLog
         /\ Finish(p, [proc[p] EXCEPT !.logged = IF ok THEN action ELSE "none"], r)

PostLogDelete(p) ==
    /\ proc[p].pc = "logDelete"
    /\ LogAndRespond(p, "delete", "deleted")

\* await updateCalendarEvent(calendar, eventId, taskEvent)
PostUpdateEvent(p) ==
    /\ UNCHANGED aux
    /\ proc[p].pc = "extPatch"
    /\ UNCHANGED <<now, cred, taskEventId, calendar, issued, gone, syncLog,
                   lastExchange, nReq, nConn, faults>>
    /\ \E r \in ExtOutcomes(proc[p].eventId) :
         LET pr == [proc[p] EXCEPT !.call = "patch", !.callRes = r] IN
         IF r = "ok"
         THEN /\ proc' = [proc EXCEPT ![p] = [pr EXCEPT !.pc = "logUpdate"]]
              /\ UNCHANGED last
         ELSE Finish(p, pr, "error")

PostLogUpdate(p) ==
    /\ proc[p].pc = "logUpdate"
    /\ LogAndRespond(p, "update", "updated")

\* eventId = await createCalendarEvent(calendar, taskEvent): the service
\* creates an event under a fresh id, or the call throws.
PostCreateEvent(p) ==
    /\ UNCHANGED aux
    /\ proc[p].pc = "extInsert"
    /\ UNCHANGED <<now, cred, taskEventId, gone, syncLog, lastExchange, nReq,
                   nConn, faults>>
    /\ \E created \in BOOLEAN :
         IF created
         THEN /\ issued < MaxEvents
              /\ issued' = issued + 1
              /\ calendar' = calendar \cup {issued + 1}
              /\ proc' = [proc EXCEPT ![p].pc = "setId",
                                      ![p].eventId = issued + 1,
                                      ![p].call = "insert", ![p].callRes = "ok"]
              /\ UNCHANGED last
         ELSE /\ UNCHANGED <<issued, calendar>>
              /\ Finish(p, [proc[p] EXCEPT !.call = "insert", !.callRes = "fail"], "error")

\* .update({google_calendar_event_id: eventId, ...}).eq('id', taskId)
PostSetEventId(p) ==
    /\ UNCHANGED aux
    /\ proc[p].pc = "setId"
    /\ UNCHANGED <<now, cred, calendar, issued, gone, syncLog, lastExchange,
                   last, nReq, nConn>>
    /\ \E ok \in BOOLEAN :
         /\ StoreOp(ok)
         /\ taskEventId' = IF ok THEN proc[p].eventId ELSE taskEventId
         /\ proc' = [proc EXCEPT ![p].pc = "logCreate",
                                 ![p].wrote = IF ok THEN "ok" ELSE "failed"]

PostLogCreate(p) ==
    /\ proc[p].pc = "logCreate"
    /\ LogAndRespond(p, "create", "created")

\* ---- DELETE /api/calendar/sync (sync/route.ts 215-274) ----

\* const { data: task } = await supabase.from('tasks').select(...).single();
\* the error is not looked at, so a failed select reads as "no event id".
DeleteReadTask(p) ==
    /\ UNCHANGED aux
    /\ proc[p].pc = "dTaskRead"
    /\ UNCHANGED <<now, cred, taskEventId, calendar, issued, gone, syncLog,
                   lastExchange, last, nReq, nConn>>
    /\ \E ok \in BOOLEAN :
         /\ StoreOp(ok)
         /\ LET e == IF ok THEN taskEventId ELSE NoEvent IN
            proc' = [proc EXCEPT ![p].eventId = e,
                                 ![p].pc = IF e # NoEvent THEN "getTokens" ELSE "dClearId"]

\* try { await deleteCalendarEvent(...) } catch (e) { /* already deleted */ }
DeleteDeleteEvent(p) ==
    /\ UNCHANGED aux
    /\ proc[p].pc = "dExtDelete"
    /\ UNCHANGED <<now, cred, taskEventId, issued, gone, syncLog, lastExchange,
                   last, nReq, nConn, faults>>
    /\ \E r \in ExtOutcomes(proc[p].eventId) :
         /\ calendar' = IF r = "ok" THEN calendar \ {proc[p].eventId} ELSE calendar
         /\ proc' = [proc EXCEPT ![p].pc = "dClearId",
                                 ![p].call = "delete", ![p].callRes = r]

\* The update that clears the task's event id, and the 200 response.
DeleteClearEventId(p) ==
    /\ UNCHANGED aux
    /\ proc[p].pc = "dClearId"
    /\ UNCHANGED <<now, cred, calendar, issued, gone, syncLog, lastExchange,
                   nReq, nConn>>
    /\ \E ok \in BOOLEAN :
         /\ StoreOp(ok)
         /\ taskEventId' = IF ok THEN NoEvent ELSE taskEventId
         /\ Finish(p, [proc[p] EXCEPT !.wrote = IF ok THEN "ok" ELSE "failed"], "success")

\* ---- PATCH /api/tasks/[taskId] (part_002 59-125) ----

\* The JSON body of the request, spread into the update as it is: new values
\* for the task's fields and, when the body names it, a value for
\* google_calendar_event_id.
FieldValues == {1, 2}

PatchBodies ==
    [fields : FieldValues, setsEventId : BOOLEAN, eventId : 0..MaxEvents]

PatchStart(p) == Arrive(p, "patch", "pUpdate")

\* The failure of the calendar update is thrown on to the outer catch.
FailOnCalendarUpdateError(pr) == "error"

\* catch (err) { console.error(...) }: the request goes on to its response.
OnCalendarUpdateError(pr) == "task"

\* .update({...updates, updated_at}).eq('id', taskId).select().single():
\* 500 when it fails; otherwise, when the row it returns has an event id,
\* getValidTokens (the same helper, copied into this route) comes next.
PatchUpdateTask(p) ==
    /\ UNCHANGED outsideTask
    /\ proc[p].pc = "pUpdate"
    /\ UNCHANGED <<now, cred, calendar, issued, gone, syncLog, lastExchange,
                   nReq, nConn>>
    /\ \E ok \in BOOLEAN, updates \in PatchBodies :
         /\ updates.setsEventId \/ updates.eventId = NoEvent
         /\ StoreOp(ok)
         /\ IF ~ok
            THEN /\ updates.fields = 1 /\ ~updates.setsEventId
                 /\ UNCHANGED <<taskFields, taskEventId>>
                 /\ Finish(p, proc[p], "error")
            ELSE LET e == IF updates.setsEventId THEN updates.eventId ELSE taskEventId
                     pr == [proc[p] EXCEPT
                              !.task = [present |-> TRUE, fields |-> updates.fields,
                                        eventId |-> e],
                              !.eventId = e,
                              !.wrote = IF updates.setsEventId THEN "ok" ELSE "none"]
                 IN
                 /\ taskFields' = updates.fields
                 /\ taskEventId' = e
                 /\ IF e # NoEvent
                    THEN /\ proc' = [proc EXCEPT ![p] = [pr EXCEPT !.pc = "getTokens"]]
                         /\ UNCHANGED last
                    ELSE Finish(p, pr, "task")

\* try { await updateCalendarEvent(calendar, task.google_calendar_event_id, ...) }
\* catch (err) { /* Don't fail the request if calendar update fails */ }
PatchUpdateEvent(p) ==
    /\ UNCHANGED outsideTask
    /\ proc[p].pc = "pExtPatch"
    /\ UNCHANGED <<now, cred, taskEventId, calendar, issued, gone, syncLog,
                   lastExchange, nReq, nConn, faults, taskFields>>
    /\ \E r \in ExtOutcomes(proc[p].eventId) :
         LET pr == [proc[p] EXCEPT !.call = "patch", !.callRes = r] IN
         Finish(p, pr, IF r = "ok" THEN "task" ELSE OnCalendarUpdateError(pr))

\* ---- client-side store functions (src/lib/supabase.ts) ----
\* Each is one call of the client, counted with its requests.

\* updateTask(taskId, input): the fields of UpdateTaskInput, which has no
\* google_calendar_event_id; it throws when the update fails.
UpdateTask ==
    /\ UNCHANGED outsideTask
    /\ AllIdle
    /\ nReq < MaxRequests
    /\ nReq' = nReq + 1
    /\ \E ok \in BOOLEAN, f \in FieldValues :
         /\ StoreOp(ok)
         /\ ok \/ f = 1
         /\ taskFields' = IF ok THEN f ELSE taskFields
    /\ UNCHANGED <<now, cred, taskEventId, calendar, issued, gone, syncLog,
                   lastExchange, proc, last, nConn>>

\* linkGoogleCalendarEvent(taskId, eventId)
LinkGoogleCalendarEvent ==
    /\ UNCHANGED outsideTask
    /\ AllIdle
    /\ nReq < MaxRequests
    /\ nReq' = nReq + 1
    /\ \E ok \in BOOLEAN, e \in 1..MaxEvents :
         /\ StoreOp(ok)
         /\ ok \/ e = 1
         /\ taskEventId' = IF ok THEN e ELSE taskEventId
    /\ UNCHANGED <<now, cred, calendar, issued, gone, syncLog, lastExchange,
                   proc, last, nConn, taskFields>>

\* unlinkGoogleCalendarEvent(taskId)
UnlinkGoogleCalendarEvent ==
    /\ UNCHANGED outsideTask
    /\ AllIdle
    /\ nReq < MaxRequests
    /\ nReq' = nReq + 1
    /\ \E ok \in BOOLEAN :
         /\ StoreOp(ok)
         /\ taskEventId' = IF ok THEN NoEvent ELSE taskEventId
    /\ UNCHANGED <<now, cred, calendar, issued, gone, syncLog, lastExchange,
                   proc, last, nConn, taskFields>>

\* ---- POST /api/calendar/webhook (part_001 153-191) ----

Users == {1, 2}
ChannelIds == {1, 2}            \* 0 stands for a request without the header
ResourceStates == {"sync", "exists", "not_exists"}

\* The outcomes of an awaited store call: it takes effect, it reports an
\* error in its result, or the await throws.
StoreOutcomes == {"ok", "error", "throw"}

\* .select('user_id').eq('channel_id', channelId).single(): the user of the
\* one matching row; no data (0) when no row or several rows match.
Single(rows, channelId) ==
    LET found == {r \in rows : r[1] = channelId} IN
    IF Cardinality(found) = 1 THEN (CHOOSE r \in found : TRUE)[2] ELSE 0

\* A handler that looks the channel up for every state but 'sync'.
LooksUpAnyChange(resourceState, channelId) == channelId # 0

\* if (resourceState === 'exists' && channelId)
LooksUp(resourceState, channelId) == resourceState = "exists" /\ channelId # 0

\* A catch that answers 500.
FailOnWebhookError(h) == "error"

\* catch (error) { return NextResponse.json({ received: true }); }
OnWebhookError(h) == "received"

\* The response: the handler is idle again and hook keeps the notification.
Respond(h, r) == hook' = [h EXCEPT !.pc = "idle", !.resp = r]

\* The notification arrives: 'sync' is acknowledged at once, 'exists' with a
\* channel id goes on to the lookup, anything else is acknowledged.
HookReceive ==
    /\ hook.pc = "idle"
    /\ nHook < MaxNotifications
    /\ nHook' = nHook + 1
    /\ \E resourceState \in ResourceStates, channelId \in {0} \cup ChannelIds :
         LET h == [IdleHook EXCEPT !.state = resourceState, !.channel = channelId] IN
         IF resourceState = "sync"
         THEN Respond(h, "received")
         ELSE IF LooksUp(resourceState, channelId)
         THEN hook' = [h EXCEPT !.pc = "lookup"]
         ELSE Respond(h, "received")
    /\ UNCHANGED <<watches, syncQueue, listVars, creds>>
    /\ UNCHANGED <<now, cred, taskEventId, calendar, issued, gone, syncLog,
                   lastExchange, proc, last, nReq, nConn, faults, taskFields,
                   mapper, subs, gate>>

\* The select on calendar_watches; its error is not looked at.
HookLookup ==
    /\ hook.pc = "lookup"
    /\ \E o \in StoreOutcomes :
         LET h == [hook EXCEPT !.lookup = o]
             watchData == IF o = "ok" THEN Single(watches, hook.channel) ELSE 0
         IN
         IF o = "throw"
         THEN Respond(h, OnWebhookError(h))
         ELSE IF watchData # 0
         THEN hook' = [h EXCEPT !.pc = "insert", !.user = watchData]
         ELSE Respond(h, "received")
    /\ UNCHANGED <<watches, syncQueue, nHook, listVars, creds>>
    /\ UNCHANGED <<now, cred, taskEventId, calendar, issued, gone, syncLog,
                   lastExchange, proc, last, nReq, nConn, faults, taskFields,
                   mapper, subs, gate>>

\* The insert into calendar_sync_queue; its error is not looked at.
HookEnqueue ==
    /\ hook.pc = "insert"
    /\ \E o \in StoreOutcomes :
         LET h == [hook EXCEPT !.insert = o,
                               !.enqueued = IF o = "ok" THEN 1 ELSE 0] IN
         /\ syncQueue' = IF o = "ok"
                         THEN Append(syncQueue, [user_id |-> hook.user,
                                                 action |-> "check_updates"])
                         ELSE syncQueue
         /\ Respond(h, IF o = "throw" THEN OnWebhookError(h) ELSE "received")
    /\ UNCHANGED <<watches, nHook, listVars, creds>>
    /\ UNCHANGED <<now, cred, taskEventId, calendar, issued, gone, syncLog,
                   lastExchange, proc, last, nReq, nConn, faults, taskFields,
                   mapper, subs, gate>>

\* The webhook starts from any content of calendar_watches.
HookInit ==
    /\ SyncInit
    /\ taskFields = 0
    /\ watches \in SUBSET (ChannelIds \X Users)
    /\ HookStart
    /\ extEvents = {}
    /\ taskRows = <<>>
    /\ listed = NotListed
    /\ CredStart
    /\ MapStart
    /\ SubtaskStart
    /\ GateStart

HookNext == HookReceive \/ HookLookup \/ HookEnqueue

HookSpec == HookInit /\ [][HookNext]_vars

\* ---- GET /api/calendar/events (part_001 59-137) ----

\* An event of the calendar, as far as the route looks at it: its id and
\* whether its description contains 'Synced from Parallel Task', the line
\* formatEventDescription ends every description with.
ExtEvents == [id : 1..2, marked : BOOLEAN]

\* A row of tasks: id, google_calendar_event_id (0 is null), status.
TaskRows == [id : 1..2, eventId : 0..2, status : {"todo", "done"}]

NoTaskRow == [id |-> 0, eventId |-> 0, status |-> "none"]

\* .not('google_calendar_event_id', 'is', null)
WithEventId(rows) == SelectSeq(rows, LAMBDA t : t.eventId # 0)

\* taskMap.get(eventId) for taskMap = new Map(tasks.map(t =>
\* [t.google_calendar_event_id, t])): of the rows with that event id, the
\* one the Map constructor saw last.
TaskMapGet(tasks, eventId) ==
    LET at == {i \in 1..Len(tasks) : tasks[i].eventId = eventId} IN
    IF at = {} THEN NoTaskRow
    ELSE tasks[CHOOSE i \in at : \A j \in at : j <= i]

\* events.map(event => ({ id, ..., taskId: taskMap.get(event.id)?.id || null,
\*   taskStatus: taskMap.get(event.id)?.status || null,
\*   isFromApp: event.description?.includes('Synced from Parallel Task')
\*              || taskMap.has(event.id) }))
FormatEvents(events, tasks) ==
    { [id |-> e.id,
       taskId |-> TaskMapGet(tasks, e.id).id,
       taskStatus |-> TaskMapGet(tasks, e.id).status,
       isFromApp |-> e.marked \/ TaskMapGet(tasks, e.id) # NoTaskRow] : e \in events }

\* The whole request.  getValidTokens (the helper modelled above, copied
\* into this route) yields tokens or null; events.list answers or throws; the
\* select on tasks, made with the session-less anon client and its error not
\* looked at, returns the rows ("rows"), returns none because row level
\* security shows that client none ("hidden"), or fails ("error").
GetEvents ==
    /\ listed = NotListed
    /\ \E tokens \in BOOLEAN, fetched \in BOOLEAN, sel \in {"rows", "hidden", "error"} :
         /\ tokens \/ (fetched /\ sel = "rows")
         /\ fetched \/ sel = "rows"
         /\ listed' =
              IF ~tokens THEN [NotListed EXCEPT !.resp = "needsAuth"]
              ELSE IF ~fetched THEN [NotListed EXCEPT !.resp = "error"]
              ELSE [resp |-> "events", sel |-> sel,
                    events |-> FormatEvents(extEvents,
                                            IF sel = "rows" THEN WithEventId(taskRows)
                                            ELSE <<>>)]
    /\ UNCHANGED <<extEvents, taskRows, hookVars, creds>>
    /\ UNCHANGED <<now, cred, taskEventId, calendar, issued, gone, syncLog,
                   lastExchange, proc, last, nReq, nConn, faults, taskFields,
                   mapper, subs, gate>>

\* The route starts from any calendar and any two task rows.
ListInit ==
    /\ SyncInit
    /\ taskFields = 0
    /\ watches = {}
    /\ HookStart
    /\ extEvents \in {es \in SUBSET ExtEvents :
                        \A e, f \in es : e.id = f.id => e = f}
    /\ taskRows \in {ts \in [1..2 -> TaskRows] : ts[1].id # ts[2].id}
    /\ listed = NotListed
    /\ CredStart
    /\ MapStart
    /\ SubtaskStart
    /\ GateStart

ListNext == GetEvents

ListSpec == ListInit /\ [][ListNext]_vars

\* ---- google_oauth_tokens as a table (supabase-google-calendar.sql 12-22) ----
\* The routes above see the one row of their user; here the table holds the
\* rows [id, user_id, refresh_token, access_token] of all users, written by
\* the OAuth callback (upsert), getValidTokens (update) and the disconnect
\* route (delete), each a single statement of the store.

RowsOf(rows, user) == {r \in rows : r.user_id = user}

\* A plain insert: a new row whatever the table holds.
InsertRow(rows, user, rt, id) ==
    rows \cup {[id |-> id, user_id |-> user, refresh_token |-> rt, access_token |-> 1]}

\* .upsert({user_id, access_token, refresh_token, ...}, {onConflict: 'user_id'})
\* on a table whose user_id is UNIQUE: the user's row takes the new values,
\* and a row is added (under the new id) only when the user has none.
Upsert(rows, user, rt, id) ==
    IF RowsOf(rows, user) # {}
    THEN {IF r.user_id = user
          THEN [r EXCEPT !.refresh_token = rt, !.access_token = 1]
          ELSE r : r \in rows}
    ELSE rows \cup {[id |-> id, user_id |-> user, refresh_token |-> rt,
                     access_token |-> 1]}

\* GET /api/auth/callback/google?code=..&state=<user>: getTokensFromCode;
\* when it throws (the token request itself failing, or the response lacking
\* a token) the route redirects with an error and stores nothing.
CredExchange(c) ==
    /\ cb[c].pc = "idle"
    /\ c = 1 \/ cb[1].pc # "idle"
    /\ creds.n < MaxCallbacks
    /\ \E user \in Users, answered \in BOOLEAN, tokens \in TokenResponses :
         LET exchanged == answered /\ GetTokensFromCode(tokens) IN
         /\ answered \/ tokens = NoTokens
         /\ creds' = [creds EXCEPT
                        !.n = @ + 1,
                        !.cb[c] = IF exchanged
                                  THEN [pc |-> "upsert", user |-> user, rt |-> creds.n + 1]
                                  ELSE IdleCb,
                        !.last = [NoCredOp EXCEPT !.op = "exchange", !.user = user,
                                                  !.ok = exchanged, !.tokens = tokens]]
    /\ UNCHANGED syncLog
    /\ UNCHANGED <<now, cred, taskEventId, calendar, issued, gone,
                   lastExchange, proc, last, nReq, nConn, faults, taskFields,
                   hookVars, listVars, mapper, subs, gate>>

\* The upsert of the callback; `if (dbError)` redirects with an error, and
\* otherwise the connection is logged (an insert whose result is not looked
\* at) before the redirect.
CredUpsert(c) ==
    /\ cb[c].pc = "upsert"
    /\ \E ok \in BOOLEAN, okLog \in BOOLEAN :
         /\ ok \/ okLog
         /\ creds' = [creds EXCEPT
                        !.rows = IF ok
                                 THEN Upsert(tokenRows, cb[c].user, cb[c].rt, creds.ids + 1)
                                 ELSE @,
                        !.ids = IF ok THEN @ + 1 ELSE @,
                        !.cb[c] = IdleCb,
                        !.last = [op |-> "connect", user |-> cb[c].user, ok |-> ok,
                                  rt |-> cb[c].rt,
                                  had |-> RowsOf(tokenRows, cb[c].user) # {},
                                  tokens |-> [access_token |-> TRUE,
                                              refresh_token |-> TRUE]]]
         /\ syncLog' = IF ok /\ okLog
                       THEN Append(syncLog, LogRow(0, NoEvent, "sync", "success"))
                       ELSE syncLog
    /\ UNCHANGED <<now, cred, taskEventId, calendar, issued, gone,
                   lastExchange, proc, last, nReq, nConn, faults, taskFields,
                   hookVars, listVars, mapper, subs, gate>>

\* getValidTokens: .update({access_token, expires_at, updated_at})
\*                 .eq('user_id', userId)
CredRefresh ==
    /\ \E user \in Users, ok \in BOOLEAN, tok \in {1, 2} :
         /\ RowsOf(tokenRows, user) # {}
         /\ creds' = [creds EXCEPT
                        !.rows = IF ok
                                 THEN {IF r.user_id = user
                                       THEN [r EXCEPT !.access_token = tok]
                                       ELSE r : r \in tokenRows}
                                 ELSE @,
                        !.last = [NoCredOp EXCEPT !.op = "refresh", !.user = user,
                                                  !.ok = ok, !.had = TRUE]]
    /\ UNCHANGED <<now, cred, taskEventId, calendar, issued, gone, syncLog,
                   lastExchange, proc, last, nReq, nConn, faults, taskFields,
                   hookVars, listVars, mapper, subs, gate>>

\* DELETE /api/calendar/status: .delete().eq('user_id', user.id); 500 when
\* the delete reports an error.
CredDisconnect ==
    /\ \E user \in Users, ok \in BOOLEAN :
         /\ creds' = [creds EXCEPT
                        !.rows = IF ok THEN @ \ RowsOf(tokenRows, user) ELSE @,
                        !.last = [NoCredOp EXCEPT !.op = "disconnect", !.user = user,
                                                  !.ok = ok,
                                                  !.had = RowsOf(tokenRows, user) # {}]]
    /\ UNCHANGED <<now, cred, taskEventId, calendar, issued, gone, syncLog,
                   lastExchange, proc, last, nReq, nConn, faults, taskFields,
                   hookVars, listVars, mapper, subs, gate>>

CredNext ==
    \/ \E c \in CbProcs : CredExchange(c)
    \/ \E c \in CbProcs : CredUpsert(c)
    \/ CredRefresh
    \/ CredDisconnect

CredSpec == Init /\ [][CredNext]_vars

\* ---- the event made from a task (google-calendar lib, part_003 112-225) ----
\* Instants are minutes; the server's clock is taken to run in the calendar's
\* time zone, so that new Date('<date>T<time>:00') is that wall-clock time.

DueDates ==
    {NoDate, [date |-> 10, rest |-> ""], [date |-> 10, rest |-> "T00:00:00Z"]}

\* due_time "00:00" and "23:30", as minutes of the day.
DueTimes == {NoTime, 0, 1410}

Durations == {NoDuration, 0, 90}

MapTasks ==
    [title : FieldValues, status : {"todo", "cancelled"}, priority : {0, 4},
     due_date : DueDates, due_time : DueTimes, duration : Durations]

\* The TaskEvent POST /api/calendar/sync passes to the library.
SyncTaskEvent(task) ==
    [title |-> task.title, dueDate |-> task.due_date, dueTime |-> task.due_time,
     duration |-> task.duration, status |-> task.status, priority |-> task.priority]

\* The TaskEvent PATCH /api/tasks/[taskId] passes: no dueTime, no duration.
PatchTaskEvent(task) ==
    [title |-> task.title, dueDate |-> task.due_date, dueTime |-> NoTime,
     duration |-> NoDuration, status |-> task.status, priority |-> task.priority]

TaskEventOf(route, task) ==
    IF route = "patch" THEN PatchTaskEvent(task) ELSE SyncTaskEvent(task)

\* A formatter that returns the string as it is.
KeepDateString(dateStr) == dateStr

\* if (dateStr.includes('T')) return dateStr.split('T')[0]; return dateStr;
FormatDateForAllDay(dateStr) ==
    IF dateStr.rest # "" THEN [dateStr EXCEPT !.rest = ""] ELSE dateStr

\* task.duration || 60
DurationOrDefault(duration) ==
    IF duration = NoDuration \/ duration = 0 THEN 60 ELSE duration

\* new Date(`${dateOnly}T${task.dueTime}:00`)
StartDateTime(dateOnly, dueTime) == dateOnly.date * 24 * 60 + dueTime

DateTime(at) == [kind |-> "dateTime", date |-> NoDate, at |-> at]

AllDay(dateOnly) == [kind |-> "date", date |-> dateOnly, at |-> 0]

\* The two branches on the task's date that create and update share:
\* <<start, end>>, undefined when the task has no due date.
StartAndEnd(task) ==
    IF task.dueDate # NoDate /\ task.dueTime # NoTime
    THEN LET dateOnly == FormatDateForAllDay(task.dueDate)
             startDateTime == StartDateTime(dateOnly, task.dueTime)
         IN  <<DateTime(startDateTime),
               DateTime(startDateTime + DurationOrDefault(task.duration))>>
    ELSE IF task.dueDate # NoDate
    THEN LET dateOnly == FormatDateForAllDay(task.dueDate)
         IN  <<AllDay(dateOnly), AllDay(dateOnly)>>
    ELSE <<NoWhen, NoWhen>>

\* formatEventDescription: the status line, the priority line and the
\* footer (the task's own description text is left out of the model).
FormatEventDescription(task) == <<task.status, task.priority>>

GetPriorityColorId(priority) ==
    CASE priority = 4 -> 11
      [] priority = 3 -> 6
      [] priority = 2 -> 5
      [] priority = 1 -> 8
      [] OTHER -> 1

EventBody(task, when) ==
    [summary |-> task.title,
     description |-> FormatEventDescription(task),
     start |-> when[1],
     end |-> when[2],
     colorId |-> GetPriorityColorId(task.priority),
     status |-> IF task.status = "cancelled" THEN "cancelled" ELSE "confirmed"]

\* The request body of createCalendarEvent: a task with no date gets an
\* hour from now.
CreatePayload(task) ==
    EventBody(task,
              IF task.dueDate # NoDate
              THEN StartAndEnd(task)
              ELSE <<DateTime(now * (60 \div HourTicks)),
                     DateTime(now * (60 \div HourTicks) + 60)>>)

\* The request body of updateCalendarEvent: start and end stay undefined
\* for a task with no date.
UpdatePayload(task) == EventBody(task, StartAndEnd(task))

\* events.insert: the event is the body.
InsertEvent(body) ==
    [exists |-> TRUE, summary |-> body.summary, description |-> body.description,
     start |-> body.start, end |-> body.end, colorId |-> body.colorId,
     status |-> body.status]

\* events.patch: the fields of the body replace the event's; an undefined
\* field is not in the request, and the event keeps its own.
PatchEvent(event, body) ==
    [exists |-> TRUE, summary |-> body.summary, description |-> body.description,
     start |-> IF body.start = NoWhen THEN event.start ELSE body.start,
     end |-> IF body.end = NoWhen THEN event.end ELSE body.end,
     colorId |-> body.colorId, status |-> body.status]

MapFrame ==
    UNCHANGED <<now, cred, taskEventId, calendar, issued, gone, syncLog,
                lastExchange, proc, last, nReq, nConn, faults, taskFields,
                hookVars, listVars, creds, subs, gate>>

\* The client edits the task (updateTask of lib/supabase.ts).
MapEdit ==
    /\ \E task \in MapTasks \ {mapTask} :
         mapper' = [mapper EXCEPT !.task = task,
                                  !.last = [op |-> "edit", route |-> "client"]]
    /\ MapFrame

\* POST /api/calendar/sync on a task without an event.
MapSyncCreate ==
    /\ ~mapEvent.exists
    /\ mapper' = [mapper EXCEPT
                    !.event = InsertEvent(CreatePayload(SyncTaskEvent(mapTask))),
                    !.last = [op |-> "create", route |-> "sync"]]
    /\ MapFrame

\* POST /api/calendar/sync on a task with an event.
MapSyncUpdate ==
    /\ mapEvent.exists
    /\ mapper' = [mapper EXCEPT
                    !.event = PatchEvent(mapEvent, UpdatePayload(SyncTaskEvent(mapTask))),
                    !.last = [op |-> "update", route |-> "sync"]]
    /\ MapFrame

\* PATCH /api/tasks/[taskId] on a task with an event: the row is updated
\* with the body, and the event is patched from the row the update returns.
MapPatchUpdate ==
    /\ mapEvent.exists
    /\ \E task \in MapTasks :
         mapper' = [task |-> task,
                    event |-> PatchEvent(mapEvent, UpdatePayload(PatchTaskEvent(task))),
                    last |-> [op |-> "update", route |-> "patch"]]
    /\ MapFrame

\* DELETE /api/calendar/sync: the event is deleted.
MapUnsync ==
    /\ mapEvent.exists
    /\ mapper' = [mapper EXCEPT !.event = NoExtEvent,
                                !.last = [op |-> "delete", route |-> "sync"]]
    /\ MapFrame

MapNext == MapEdit \/ MapSyncCreate \/ MapSyncUpdate \/ MapPatchUpdate \/ MapUnsync

MapSpec == Init /\ [][MapNext]_vars

\* ---- POST /api/subtasks (subtasks/route.ts 90-151) ----
\* The subtasks of one task.  A row is [id, position, blind]: blind marks a
\* position worked out from a select that failed.

\* .select('position').eq('task_id', task_id).order('position',
\*   {ascending: false}).limit(1).single(): the largest position, or no row.
MaxPosition(rows) ==
    IF rows = {} THEN -1
    ELSE CHOOSE m \in {r.position : r \in rows} :
           \A r \in rows : r.position <= m

\* const nextPosition = (maxPosResult?.position ?? -1) + 1, where
\* maxPosResult is null when the task has no subtask and when the select
\* fails (its error is not looked at).
NextPosition(rows, ok) == (IF ok THEN MaxPosition(rows) ELSE -1) + 1

SubFrame ==
    UNCHANGED <<now, cred, taskEventId, calendar, issued, gone, syncLog,
                lastExchange, proc, last, nReq, nConn, faults, taskFields,
                hookVars, listVars, creds, mapper, gate>>

\* The request arrives with a valid token, a task_id and a title.
SubPostStart(p) ==
    /\ sub[p].pc = "idle"
    /\ p = 1 \/ sub[1].pc # "idle"
    /\ subs.n < MaxSubtasks
    /\ subs' = [subs EXCEPT !.h[p].pc = "readMax", !.n = @ + 1]
    /\ SubFrame

\* The select of the largest position.
SubReadMax(p) ==
    /\ sub[p].pc = "readMax"
    /\ \E ok \in BOOLEAN :
         subs' = [subs EXCEPT !.h[p] = [pc |-> "insert",
                                        next |-> NextPosition(subtasks, ok),
                                        blind |-> ~ok]]
    /\ SubFrame

\* The insert of the row with position: nextPosition; an error is thrown
\* and answered with 500.
SubInsert(p) ==
    /\ sub[p].pc = "insert"
    /\ \E ok \in BOOLEAN :
         subs' = [subs EXCEPT
                    !.h[p] = IdleSub,
                    !.rows = IF ok
                             THEN @ \cup {[id |-> Cardinality(subtasks) + 1,
                                           position |-> sub[p].next,
                                           blind |-> sub[p].blind]}
                             ELSE @]
    /\ SubFrame

SubNext == \E p \in SubProcs : SubPostStart(p) \/ SubReadMax(p) \/ SubInsert(p)

SubSpec == Init /\ [][SubNext]_vars

\* ---- the routes' checks of the caller ----
\* A request carries an Authorization header or none; supabase.auth.getUser
\* accepts the token ("valid") or rejects it ("invalid").  A route, once past
\* its checks, may call Google and may write rows.

Routes ==
    {"sync.POST", "sync.DELETE", "tasks.PATCH", "events.GET", "status.DELETE",
     "callback.GET"}

Identities == {"none", "invalid", "valid"}

\* The routes that start with
\*   const authHeader = request.headers.get('authorization');
\*   if (!authHeader) return 401;
\*   const { data: { user }, error } = await supabase.auth.getUser(token);
\*   if (authError || !user) return 401;
\* GET /api/auth/callback/google reads code and state (the user id) from the
\* query string and has no such check.
ChecksIdentity(route) == route # "callback.GET"

\* The route calls Google (token refresh, calendar API, code exchange).
CallsOut(route) == route # "status.DELETE"

\* The tables the route writes.
Writes(route) ==
    CASE route = "sync.POST" -> {"google_oauth_tokens", "tasks", "calendar_sync_log"}
      [] route = "sync.DELETE" -> {"google_oauth_tokens", "tasks"}
      [] route = "tasks.PATCH" -> {"google_oauth_tokens", "tasks"}
      [] route = "events.GET" -> {"google_oauth_tokens"}
      [] route = "status.DELETE" -> {"google_oauth_tokens"}
      [] route = "callback.GET" -> {"google_oauth_tokens", "calendar_sync_log"}

GateFrame ==
    UNCHANGED <<now, cred, taskEventId, calendar, issued, gone, syncLog,
                lastExchange, proc, last, nReq, nConn, faults, taskFields,
                hookVars, listVars, creds, mapper, subs>>

GateRespond(r) == gate' = [gate EXCEPT !.pc = "idle", !.resp = r]

\* A request arrives at a route.  The callback redirects at once when the
\* query has an error or lacks code or state.
GateReceive ==
    /\ gate.pc = "idle"
    /\ gate.n < MaxGateRequests
    /\ \E route \in Routes, identity \in Identities, params \in BOOLEAN :
         LET g == [IdleGate EXCEPT !.route = route, !.identity = identity,
                                   !.n = gate.n + 1] IN
         IF ChecksIdentity(route)
         THEN /\ params
              /\ gate' = IF identity = "none"
                         THEN [g EXCEPT !.resp = "401"]
                         ELSE [g EXCEPT !.pc = "getUser"]
         ELSE gate' = IF params
                      THEN [g EXCEPT !.pc = "work"]
                      ELSE [g EXCEPT !.resp = "redirect"]
    /\ GateFrame

\* await supabase.auth.getUser(token)
GateGetUser ==
    /\ gate.pc = "getUser"
    /\ IF gate.identity = "valid"
       THEN gate' = [gate EXCEPT !.pc = "work"]
       ELSE GateRespond("401")
    /\ GateFrame

\* The body of the route: what it calls and writes depends on the stored
\* state (connected or not, token expired or not, task synced or not).
GateWork ==
    /\ gate.pc = "work"
    /\ \E ext \in BOOLEAN, wrote \in SUBSET Writes(gate.route) :
         /\ ext => CallsOut(gate.route)
         /\ gate.route = "callback.GET" => ext
         /\ gate' = [gate EXCEPT !.pc = "idle", !.resp = "done",
                                 !.ext = ext, !.wrote = wrote]
    /\ GateFrame

GateNext == GateReceive \/ GateGetUser \/ GateWork

GateSpec == Init /\ [][GateNext]_vars

\* -------------------------------------------------------- specification ---
Step(p) ==
    \/ PostStart(p)
    \/ DeleteStart(p)
    \/ GetValidTokens(p)
    \/ RefreshAccessToken(p)
    \/ StoreRefreshedTokens(p)
    \/ PostReadTask(p)
    \/ PostDeleteEvent(p)
    \/ PostClearEventId(p)
    \/ PostLogDelete(p)
    \/ PostUpdateEvent(p)
    \/ PostLogUpdate(p)
    \/ PostCreateEvent(p)
    \/ PostSetEventId(p)
    \/ PostLogCreate(p)
    \/ DeleteReadTask(p)
    \/ DeleteDeleteEvent(p)
    \/ DeleteClearEventId(p)

Env ==
    \/ Tick
    \/ OutOfBandDelete
    \/ OAuthCallback
    \/ Disconnect

\* Requests of one client after another.
SeqNext == Step(1) \/ Env

\* Two clients whose requests may overlap.
Next == (\E p \in Procs : Step(p)) \/ Env

SeqSpec == Init /\ [][SeqNext]_vars

\* The task routes and functions outside the sync routes.  They start from
\* the states the sync routes and the passing of time leave behind: the task
\* synced (event 1) or not, its event still in the calendar or deleted there,
\* the user not connected or connected with a token that is valid or expired.
StoredRow(exp) ==
    [present |-> TRUE, access_token |-> exp, refresh_token |-> 1, expires_at |-> exp]

TaskInit ==
    /\ now = 0
    /\ cred \in {NoRow} \cup {StoredRow(exp) : exp \in 0..1}
    /\ lastExchange = (IF cred.present THEN 1 ELSE 0)
    /\ nConn = (IF cred.present THEN 1 ELSE 0)
    /\ taskEventId \in {NoEvent, 1}
    /\ calendar \in SUBSET ({taskEventId} \ {NoEvent})
    /\ gone = ({taskEventId} \ {NoEvent}) \ calendar
    /\ issued = taskEventId
    /\ syncLog = <<>>
    /\ proc = [p \in Procs |-> IdleProc]
    /\ last = NoEntry
    /\ nReq = 0
    /\ faults = 0
    /\ AuxInit

TaskNext ==
    \/ PatchStart(1)
    \/ PatchUpdateTask(1)
    \/ GetValidTokens(1)
    \/ RefreshAccessToken(1)
    \/ StoreRefreshedTokens(1)
    \/ PatchUpdateEvent(1)
    \/ UpdateTask
    \/ LinkGoogleCalendarEvent
    \/ UnlinkGoogleCalendarEvent

TaskSpec == TaskInit /\ [][TaskNext]_vars

Spec == Init /\ [][Next]_vars

\* ----------------------------------------------------------- properties ---
\* The step in which request handler p produces its response.
Completes(p) == InFlight(p) /\ proc'[p].pc = "idle"

\* getValidTokens returned null to the request.
NotConnected(e) == e.how \in {"absent", "refreshFailed"}

Succeeded(e) == e.resp \in {"created", "updated", "deleted", "success"}

\* C1: when two overlapping sync requests on a task without an event id have
\* both answered with success (no store operation having failed and no event
\* having been deleted out-of-band), only one of them has created an event,
\* and that event is the only one in the calendar and the one the task holds.
C1_OneCreatePerTask ==
    [][\A p \in Procs :
         ( /\ Completes(p)
           /\ faults' = 0 /\ gone' = {}
           /\ last.p # 0 /\ last.p # p
           /\ last.kind = "sync" /\ last'.kind = "sync"
           /\ last.conc /\ last'.conc
           /\ last.pre = NoEvent /\ last'.pre = NoEvent
           /\ Succeeded(last) /\ Succeeded(last') )
         => /\ ~(last.call = "insert" /\ last'.call = "insert")
            /\ taskEventId' # NoEvent
            /\ calendar' = {taskEventId'}]_vars

\* C2: when no request is in flight (no store operation having failed and
\* no event having been deleted out-of-band), the task holds an event id iff
\* that event exists in the calendar, and the calendar holds no other event
\* of the task.
C2_EventIdIffEventExists ==
    (AllIdle /\ faults = 0 /\ gone = {})
    => /\ taskEventId # NoEvent => taskEventId \in calendar
       /\ calendar \subseteq {taskEventId}

\* A POST request (sync or delete) whose getValidTokens returned null.
PostNotConnected(e) == e.kind \in {"sync", "pdel"} /\ NotConnected(e)

\* C3: a POST request for which getValidTokens yields null (no row, or an
\* expired token and a failing refresh) answers 401 needsAuth, has made no
\* calendar call, has not written the task's event id (which, no other
\* request having overlapped, is as it was when the request arrived) and has
\* inserted no log row.
C3_NotConnectedFailsFast ==
    PostNotConnected(last)
    => /\ last.resp = "needsAuth"
       /\ last.call = "none"
       /\ last.wrote = "none"
       /\ last.conc \/ last.post = last.pre
       /\ last.logged = "none"

\* A synced task, an expired token, a failing refresh: answered needsAuth.
C3_Witness ==
    /\ last.kind = "sync"
    /\ last.how = "refreshFailed"
    /\ last.pre # NoEvent
    /\ last.resp = "needsAuth"
    /\ taskEventId = last.pre

\* The step in which getValidTokens returns tokens (not null) to handler p.
ReturnsTokens(p) ==
    /\ proc[p].pc \in {"getTokens", "storeTokens"}
    /\ proc'[p].pc \in {"taskRead", "dExtDelete"}

C5_RefreshTokenKept ==
    cred.present
    => /\ cred.refresh_token # 0
       /\ cred.refresh_token = lastExchange

\* A refresh has been stored in the row (the row holds the handler's new
\* access token) and the refresh token is still there.
C5_Witness ==
    \E p \in Procs :
        /\ proc[p].how = "refreshed"
        /\ cred.present
        /\ cred.access_token = proc[p].tokens.access_token
        /\ cred.access_token # proc[p].tokens.expires_at
        /\ cred.refresh_token = lastExchange
        /\ cred.refresh_token # 0

\* The step in which the refresh call of handler p fails.
RefreshFails(p) ==
    /\ proc[p].pc = "refresh"
    /\ proc'[p].pc \notin {"refresh", "storeTokens"}

\* C6: when the refresh call fails, getValidTokens returns null and the
\* credential row is exactly as it was.
C6_FailedRefreshKeepsRow ==
    [][\A p \in Procs :
         RefreshFails(p)
         => /\ cred' = cred
            /\ IF proc'[p].pc = "idle"
               THEN last'.p = p /\ last'.how = "refreshFailed" /\ last'.resp = "needsAuth"
               ELSE proc'[p].how = "refreshFailed" /\ ~proc'[p].tokens.present]_vars

\* After a request that failed on its refresh, and with no second OAuth
\* callback, a later request has obtained a valid token by a refresh with
\* the refresh token that was kept.
C6_Witness ==
    \E p \in Procs :
        /\ last.how = "refreshFailed"
        /\ last.resp = "needsAuth"
        /\ nConn = 1
        /\ proc[p].how = "refreshed"
        /\ proc[p].tokens.refresh_token = lastExchange
        /\ proc[p].tokens.access_token > now

Unsyncs == {"unsync", "pdel"}

\* C7: a sync that answered 'created' for a task without an event id,
\* followed immediately by a second sync (nothing having been deleted
\* out-of-band), leaves one create call in all:
\* the second sync creates nothing (it answers 'updated' if it succeeds),
\* the task's event id is what it was after the first, and one event exists
\* in the calendar.
C7_SyncTwiceCreatesOnce ==
    [][\A p \in Procs :
         ( /\ Completes(p)
           /\ gone' = {}
           /\ last.kind = "sync" /\ last.pre = NoEvent /\ last.resp = "created"
           /\ last'.kind = "sync" )
         => /\ last'.call # "insert"
            /\ Succeeded(last') => last'.resp = "updated"
            /\ last'.post = last.post
            /\ Cardinality(last'.ev) = 1]_vars

\* C8: of two unsync requests in a row (each through DELETE or through POST
\* with action 'delete'; the user connected, no calendar call or store
\* operation failing, nothing deleted out-of-band), the second answers with
\* no error and leaves what the first left: no event id on the task and no
\* event in the calendar.
C8_UnsyncIdempotent ==
    [][\A p \in Procs :
         ( /\ Completes(p)
           /\ last.kind \in Unsyncs /\ last'.kind \in Unsyncs
           /\ faults' = 0 /\ gone' = {}
           /\ ~NotConnected(last) /\ ~NotConnected(last')
           /\ last.callRes # "fail" /\ last'.callRes # "fail" )
         => /\ last'.resp \notin {"error", "needsAuth", "notFound"}
            /\ last'.post = NoEvent /\ last'.ev = {}
            /\ last'.post = last.post /\ last'.ev = last.ev]_vars

\* C9: an unsync request (through either entry point) on a task whose event
\* was deleted out-of-band, so that its delete call reports not-found,
\* answers with success and leaves the task without an event id.
C9_UnsyncAfterOutOfBandDelete ==
    ( /\ last.kind \in Unsyncs
      /\ last.pre # NoEvent /\ last.gonePre
      /\ last.call = "delete" /\ last.callRes = "notfound"
      /\ faults = 0 )
    => /\ Succeeded(last)
       /\ last.post = NoEvent

\* C10: a sync whose patch call reports not-found (the event was deleted
\* out-of-band) does not answer with an error, and leaves the task so that
\* the next sync takes the create branch.
C10_PatchNotFoundRecreates ==
    ( /\ last.kind = "sync"
      /\ last.call = "patch" /\ last.callRes = "notfound"
      /\ faults = 0 )
    => /\ last.resp # "error"
       /\ Branch("sync", last.post) = "extInsert"

\* A PATCH /api/tasks/[taskId] request whose update of the task succeeded and
\* returned a synced task.
PatchedSynced(pr) ==
    pr.kind = "patch" /\ pr.task.present /\ pr.task.eventId # NoEvent

SyncWrites(p) == proc[p].pc \in {"setId", "clearId", "dClearId"}

\* C17: the task's google_calendar_event_id changes only in a step of sync
\* or unsync: no step of PATCH /api/tasks/[taskId], updateTask or another
\* client-side store function changes it.
C17_OnlySyncWritesEventId ==
    [][taskEventId' # taskEventId => \E p \in Procs : SyncWrites(p)]_vars

\* A sync attempt that failed: its calendar call failed, or its write of the
\* task's event id did.
SyncAttemptFailed(e) ==
    /\ e.kind \in {"sync", "pdel", "unsync"}
    /\ e.callRes \in {"fail", "notfound"} \/ e.wrote = "failed"

\* C12: when a sync attempt has failed (its create, patch or delete call,
\* or its store write), calendar_sync_log holds a row of the task with
\* status 'failed'.
C12_FailureLogged ==
    SyncAttemptFailed(last)
    => \E i \in 1..Len(syncLog) :
         syncLog[i].task_id = 1 /\ syncLog[i].status = "failed"

\* C18: DELETE /api/calendar/sync on a synced task for which getValidTokens
\* yields null answers with the needs-authorization signal, has made no
\* delete call and leaves the task's event id as it was.
C18_UnsyncNotConnectedFailsFast ==
    ( /\ last.kind = "unsync"
      /\ last.pre # NoEvent
      /\ NotConnected(last) )
    => /\ last.resp = "needsAuth"
       /\ last.call = "none"
       /\ last.post = last.pre

\* C19: an unsync request (through either entry point) on a task without an
\* event id, the user connected and no store operation failing, makes no
\* calendar call, leaves the event id null and inserts no log row.
C19_UnsyncUnsyncedIsNoOp ==
    ( /\ last.kind \in Unsyncs
      /\ last.pre = NoEvent
      /\ faults = 0 )
    => /\ last.call = "none"
       /\ last.post = NoEvent
       /\ last.logged = "none"

\* C20: an unsync request (through either entry point) that answered with
\* success on a synced task, no store operation having failed, has left the
\* event out of the calendar, the task without an event id, and one row
\* (delete, success) in calendar_sync_log.
C20_UnsyncEffects ==
    ( /\ last.kind \in Unsyncs
      /\ last.pre # NoEvent
      /\ Succeeded(last)
      /\ faults = 0 )
    => /\ last.pre \notin last.ev
       /\ last.post = NoEvent
       /\ last.logged = "delete"
       /\ Cardinality({i \in 1..Len(syncLog) :
                         syncLog[i].action = "delete" /\ syncLog[i].status = "success"}) = 1

\* The webhook has answered a notification.
Answered == hook.pc = "idle" /\ hook.state # "none"

\* C13: every notification the webhook has handled was answered with the
\* success response, whatever its resource state and channel id and
\* whatever became of the channel lookup and of the queue insert.
C13_WebhookAlwaysAcknowledges ==
    Answered => hook.resp = "received"

\* A notification acknowledged although its queue insert threw.
C13_Witness ==
    /\ Answered
    /\ hook.insert = "throw"
    /\ hook.resp = "received"

\* The channel id is registered: calendar_watches maps it to one user.
Registered(channelId) == Single(watches, channelId) # 0

\* The last row of calendar_sync_queue is the item of this notification.
EnqueuedFor(user) ==
    /\ Len(syncQueue) > 0
    /\ syncQueue[Len(syncQueue)] = [user_id |-> user, action |-> "check_updates"]

\* C14 as stated: a notification enqueues an item iff its state is 'exists'
\* and its channel id is registered, and then one item for the channel's
\* user; it fetches no events.
C14_EnqueueIffExistsRegistered ==
    Answered
    => /\ hook.enqueued = 1 <=> (hook.state = "exists" /\ Registered(hook.channel))
       /\ hook.enqueued = 1 => EnqueuedFor(Single(watches, hook.channel))
       /\ ~hook.fetched

\* The step in which the webhook answers.
Answers == hook'.pc = "idle" /\ (hook.pc # "idle" \/ nHook' # nHook)

\* C14 amended: a notification enqueues an item iff its state is 'exists',
\* its channel id is registered and both the channel lookup and the queue
\* insert succeed; it then enqueues one item, for the channel's user; every
\* other notification enqueues nothing, and none fetches events.
C14_EnqueueIffExistsRegisteredAndStored ==
    [][Answers
       => /\ hook'.enqueued = 1 <=> /\ hook'.state = "exists"
                                    /\ Registered(hook'.channel)
                                    /\ hook'.lookup = "ok"
                                    /\ hook'.insert = "ok"
          /\ IF hook'.enqueued = 1
             THEN syncQueue' = Append(syncQueue,
                                      [user_id |-> Single(watches, hook'.channel),
                                       action |-> "check_updates"])
             ELSE syncQueue' = syncQueue
          /\ ~hook'.fetched]_vars

\* An 'exists' notification of a registered channel has enqueued its item.
C14_Witness ==
    /\ Answered
    /\ hook.state = "exists"
    /\ Registered(hook.channel)
    /\ hook.enqueued = 1
    /\ EnqueuedFor(Single(watches, hook.channel))

\* The tasks that hold event id eventId.
LinkedTasks(eventId) ==
    {i \in 1..Len(taskRows) : taskRows[i].eventId = eventId}

\* C15: in the events the route answers with, an event whose id is some
\* task's event id carries that task's id and status, and any other event
\* carries no task id, no task status and is not marked as the app's.
C15_ListedEventsLinkedOrForeign ==
    listed.resp = "events"
    => \A r \in listed.events :
         IF LinkedTasks(r.id) # {}
         THEN \E i \in LinkedTasks(r.id) :
                r.taskId = taskRows[i].id /\ r.taskStatus = taskRows[i].status
         ELSE r.taskId = 0 /\ r.taskStatus = "none" /\ ~r.isFromApp

\* C16: whatever the interleaving of OAuth callbacks, refreshes and
\* disconnects, google_oauth_tokens holds at most one row per user; a
\* callback for a user who has a row replaces that row (same row, new
\* tokens, no row added), and a disconnect leaves the user no row.
C16_OneCredentialRowPerUser ==
    [][/\ \A user \in Users : Cardinality(RowsOf(tokenRows', user)) <= 1
       /\ (credLast'.op = "connect" /\ credLast'.ok)
            => /\ \E r \in RowsOf(tokenRows', credLast'.user) :
                    r.refresh_token = credLast'.rt
               /\ credLast'.had
                    => /\ Cardinality(tokenRows') = Cardinality(tokenRows)
                       /\ {r.id : r \in tokenRows'} = {r.id : r \in tokenRows}
       /\ (credLast'.op = "disconnect" /\ credLast'.ok)
            => RowsOf(tokenRows', credLast'.user) = {}]_vars

\* A second callback of a connected user has replaced the user's row.
C16_Witness ==
    /\ credLast.op = "connect" /\ credLast.ok /\ credLast.had
    /\ \E r \in RowsOf(tokenRows, credLast.user) : r.refresh_token = credLast.rt
    /\ Cardinality(RowsOf(tokenRows, credLast.user)) = 1

\* C21: when a sync of a task without an event id answers 'created' with
\* event id E (nothing having been deleted out-of-band), then as the request
\* completes event E exists in the calendar, the task's event id is E, and
\* the request has appended exactly one log row (create, success, E);
\* whatever the outcome of the store write that records E.
C21_CreatedRecordsEvent ==
    [][\A p \in Procs :
         ( /\ Completes(p)
           /\ gone' = {}
           /\ last'.p = p /\ last'.kind = "sync" /\ last'.pre = NoEvent
           /\ ~last'.conc
           /\ last'.resp = "created" )
         => /\ proc[p].eventId \in calendar'
            /\ taskEventId' = proc[p].eventId
            /\ syncLog' = Append(syncLog,
                                 LogRow(1, proc[p].eventId, "create", "success"))]_vars

\* Handler p stores the response of its refresh in the credential row.
RefreshWrite(p) == proc[p].pc = "storeTokens" /\ proc'[p].pc # "storeTokens"

\* C23: when two overlapping requests have both found the token expired and
\* both refreshed, the write of one never replaces what the refresh of the
\* other has stored by an older response: the stored expires_at does not
\* decrease in a refresh write.
C23_RefreshWriteNeverDecreases ==
    [][\A p \in Procs, q \in Procs :
         ( /\ p # q
           /\ RefreshWrite(p)
           /\ InFlight(q) /\ proc[q].how = "refreshed"
           /\ cred.present
           /\ cred.access_token = proc[q].tokens.access_token )
         => cred'.expires_at >= cred.expires_at]_vars

\* Handler p takes a step.
Steps(p) == proc'[p] # proc[p]

\* C27: when the row getValidTokens has read expires later than the current
\* time, it returns that row unchanged, with no refresh call and no write to
\* the row; a handler writes the row only in the step that stores a
\* refresh response, which follows a successful refresh once (the step
\* after the response, not repeated) and nothing else.
C27_FastPathAndOneWritePerRefresh ==
    [][\A p \in Procs :
         Steps(p)
         => /\ ( /\ proc[p].pc = "getTokens"
                 /\ cred.present /\ cred.expires_at > now
                 /\ faults' = faults )
               => /\ cred' = cred
                  /\ proc'[p].pc \notin {"refresh", "storeTokens"}
                  /\ proc'[p].how = "stored"
                  /\ proc'[p].tokens = cred
            /\ cred' # cred => RefreshWrite(p)
            /\ proc'[p].pc = "storeTokens"
               => proc[p].pc = "refresh" /\ cred' = cred
            /\ proc[p].pc = "refresh"
               => proc'[p].pc = "storeTokens" \/ proc'[p].how = "refreshFailed"
                  \/ last'.how = "refreshFailed"]_vars

\* getValidTokens has returned the stored row, which has not expired, and
\* the row is as it was.
C27_Witness ==
    \E p \in Procs :
        /\ proc[p].pc \in {"taskRead", "dExtDelete"}
        /\ proc[p].how = "stored"
        /\ proc[p].tokens = cred
        /\ cred.expires_at > now

\* C29: when a sync and an unsync of the same task overlap, then once both
\* have answered (no store operation or calendar call having failed, nothing
\* deleted out-of-band) every event in the calendar is the one the task
\* holds, and the event the task holds is in the calendar.
C29_SyncUnsyncLeaveNoOrphan ==
    [][\A p \in Procs :
         ( /\ Completes(p)
           /\ AllIdle'
           /\ faults' = 0 /\ gone' = {}
           /\ last.p # 0 /\ last.p # p
           /\ last.conc /\ last'.conc
           /\ {last.kind, last'.kind} = {"sync", "unsync"}
           /\ last.callRes # "fail" /\ last'.callRes # "fail"
           /\ ~NotConnected(last) /\ ~NotConnected(last') )
         => /\ calendar' \subseteq {taskEventId'}
            /\ taskEventId' # NoEvent => taskEventId' \in calendar']_vars

\* C26: the code exchange fails whenever the response lacks the access token
\* or the refresh token, and the callback then ends leaving the credential
\* table and the log as they were; the callback writes a row (and logs the
\* connection) only after an exchange whose response carried both tokens.
C26_ExchangeNeedsBothTokens ==
    [][/\ ( /\ creds'.n # creds.n
            /\ credLast'.op = "exchange"
            /\ ~(credLast'.tokens.access_token /\ credLast'.tokens.refresh_token) )
          => /\ ~credLast'.ok
             /\ tokenRows' = tokenRows
             /\ syncLog' = syncLog
             /\ \A c \in CbProcs : cb'[c].pc = "upsert" => cb[c].pc = "upsert"
       /\ \A c \in CbProcs :
            (cb[c].pc = "idle" /\ cb'[c].pc = "upsert")
            => credLast'.tokens.access_token /\ credLast'.tokens.refresh_token
       /\ (tokenRows' # tokenRows /\ credLast'.op = "connect")
            => \E c \in CbProcs : cb[c].pc = "upsert" /\ cb'[c].pc = "idle"
       /\ syncLog' # syncLog
            => \E c \in CbProcs : cb[c].pc = "upsert" /\ cb'[c].pc = "idle"]_vars

\* A connected user has come back with a code whose exchange returned an
\* access token and no refresh token: the exchange has failed and the
\* user's row is still there.
C26_Witness ==
    /\ credLast.op = "exchange" /\ ~credLast.ok
    /\ credLast.tokens.access_token /\ ~credLast.tokens.refresh_token
    /\ RowsOf(tokenRows, credLast.user) # {}
    /\ \A c \in CbProcs : cb[c].pc = "idle"

\* The event has just been written (created or patched) from the task.
EventWritten == mapLast.op \in {"create", "update"}

\* C24: an event written from a task that has a due date and a due time is
\* a timed event that starts at due_date + due_time and ends duration
\* minutes later, 60 minutes when the task has no duration; on create and
\* on update.
C24_TimedEventStartAndEnd ==
    (EventWritten /\ mapTask.due_date # NoDate /\ mapTask.due_time # NoTime)
    => /\ mapEvent.start.kind = "dateTime"
       /\ mapEvent.end.kind = "dateTime"
       /\ mapEvent.start.at = mapTask.due_date.date * 24 * 60 + mapTask.due_time
       /\ mapEvent.end.at = mapEvent.start.at +
                            (IF mapTask.duration = NoDuration THEN 60
                             ELSE mapTask.duration)

\* C25: an event written from a task that has a due date and no due time is
\* an all-day event whose start and end are the date portion of due_date:
\* what follows the date in due_date (a 'T' and a time) is not in them.
C25_AllDayEventDate ==
    (EventWritten /\ mapTask.due_date # NoDate /\ mapTask.due_time = NoTime)
    => /\ mapEvent.start = AllDay([date |-> mapTask.due_date.date, rest |-> ""])
       /\ mapEvent.end = mapEvent.start

\* An event has been patched from a task whose due_date carries a time and
\* which has no due time: it is an all-day event of that date.
C25_Witness ==
    /\ mapLast.op = "update"
    /\ mapTask.due_date.rest # "" /\ mapTask.due_time = NoTime
    /\ mapEvent.start.kind = "date"
    /\ mapEvent.start.date = [date |-> mapTask.due_date.date, rest |-> ""]
    /\ mapEvent.end = mapEvent.start

\* C28: a patch sets the whole event from the task: after it each of
\* summary, description, start, end, colour and status is the one the
\* task's fields give, whatever the event held before, and patching again
\* changes nothing; for the patches of sync and of the task-update route.
C28_PatchSetsFullEvent ==
    mapLast.op = "update"
    => LET body == UpdatePayload(TaskEventOf(mapLast.route, mapTask)) IN
       /\ mapEvent.summary = body.summary
       /\ mapEvent.description = body.description
       /\ mapEvent.colorId = body.colorId
       /\ mapEvent.status = body.status
       /\ mapEvent.start = body.start
       /\ mapEvent.end = body.end
       /\ PatchEvent(mapEvent, body) = mapEvent

\* C30: a new subtask gets the position after the largest position of the
\* task's subtasks (0 when there are none), so that no two subtasks of the
\* task share a position, whatever the order of the creations' steps
\* (positions worked out from a failed select left aside).
C30_SubtaskPositionsDistinct ==
    \A r, t \in subtasks :
        (r.id # t.id /\ ~r.blind /\ ~t.blind) => r.position # t.position

\* C22: at every route that syncs, or writes credentials, tasks or the sync
\* log, a request whose caller is not verified (no Authorization header, or
\* a token getUser rejects) is answered before the route calls Google and
\* before it writes a row.
C22_UnverifiedCallerRejected ==
    (gate.ext \/ gate.wrote # {}) => gate.identity = "valid"

====
